---------------------------- MODULE Spec2Model ----------------------------
(***************************************************************************)
(* Condition-monitoring engine of the YSMAI repository.                    *)
(*                                                                         *)
(* Two programs are modelled:                                              *)
(*   - EnhancedYSMAI_Agent (students/S12345_KhobaitSimran/                 *)
(*     agent_enhanced.py): the debounced finite-state machine;             *)
(*   - the Streamlit dashboard script (students/Nafis_Frontend/app.py)     *)
(*     with its reading generator (mock_data.py): every rerun of the       *)
(*     script is one action.                                               *)
(*                                                                         *)
(* Units.  Times are integers in centiseconds, temperatures integers in    *)
(* hundredths of a degree Fahrenheit, drift rates in hundredths of a       *)
(* degree per second.  The code computes in binary floating point; on the  *)
(* time grid used here (multiples of 4 cs) no value lies on a rounding     *)
(* tie, and round() agrees with RoundHalfEven below.                       *)
(***************************************************************************)
EXTENDS Integers, Sequences, FiniteSets

VARIABLES
    \* ---- EnhancedYSMAI_Agent fields
    threshold_high, threshold_low, debounce_sec,
    current_state, last_state, state_timestamp, condition_start_time,
    use_ml, ml_trainer, ml_ready,
    \* the log of update() calls: arguments and the response returned
    trace,
    \* the log of an earlier run whose calls are being repeated (empty when
    \* no run is being repeated)
    first_run,
    \* ---- st.session_state of the dashboard
    running, start_time, tick_count, sensor_history, alert_history, scheduler,
    \* ---- sidebar sliders (widget state)
    initial_temp, drift_rate, high_threshold, low_threshold,
    \* ---- wall clock, in centiseconds since the session state was created
    now,
    \* every reading generated since the session state was created, in order
    emitted

agentVars == <<threshold_high, threshold_low, debounce_sec, current_state,
               last_state, state_timestamp, condition_start_time, use_ml,
               ml_trainer, ml_ready, trace, first_run>>
sessionVars == <<running, start_time, tick_count, sensor_history,
                 alert_history, scheduler, emitted>>
sliderVars == <<initial_temp, drift_rate, high_threshold, low_threshold>>
appVars == <<sessionVars, sliderVars, now>>
vars == <<agentVars, appVars>>

\* Python's None for an optional timestamp (timestamps are never negative).
None == -1

--------------------------------------------------------------------------
(* Bounds of the model *)

\* update() calls per agent run
MaxUpdates == 5
\* ticks since the last reset, in the interactive specification
MaxTicks == 3
\* ticks of the long unattended run (history capacity exceeded)
MaxSteadyTicks == 303
\* ticks of the long run in which the operator keeps moving a threshold
MaxFlapTicks == 103

\* update() calls per agent run, in the specification with reset()
MaxResetUpdates == 3

\* update() calls per run, in the specification that repeats a run
MaxReplayUpdates == 2

\* ticks of the scenario run
MaxScenarioTicks == 6

\* timestamp increments between two update() calls (cs)
AgentSteps == {50, 100}
\* temperatures fed to update(): below, on and above each default threshold
AgentTemps == {4900, 5000, 8500, 8600}
\* temperatures fed to update() in the specification with reset()
ResetTemps == {4900, 8600}
\* temperatures, timestamp increments (cs) and the optional sensor
\* arguments (rpm, psi, mm/s) of update() in the specification that
\* repeats a run
ReplayTemps == {6000, 8600}
ReplaySteps == {200}
SensorChoices ==
    {[rpm |-> 0, pressure |-> 0, vib |-> 0],
     [rpm |-> 1500, pressure |-> 35, vib |-> 3]}
\* debounce_sec values the agent is constructed with (cs); 150 is the default
DebounceChoices == {0, 150}

\* time elapsed between two reruns of the dashboard script (cs)
Steps == {4, 3000}
\* time between two reruns in the long runs (cs): the 1500 ms refresh
\* interval and the script's own running time
RefreshSteps == {152}
\* time between two reruns in the scenario run (cs): 1 s, 5 s, 31 s
ScenarioSteps == {100, 500, 3100}
\* slider positions
InitialTempChoices == {60, 80}
DriftChoices == {10, 50}
HighChoices == {70, 80, 85}
LowChoices == {50, 80}

--------------------------------------------------------------------------
(* EnhancedYSMAI_Agent *)

STATE_NORMAL == "NORMAL"
STATE_ALERT_HIGH == "ALERT_HIGH"
STATE_ALERT_LOW == "ALERT_LOW"
STATE_ML_FAULT == "ML_PREDICTED_FAULT"

\* __init__ defaults, in hundredths of a degree and centiseconds
DefaultThresholdHigh == 8500
DefaultThresholdLow == 5000
DefaultDebounce == 150

\* the rule-based fields after __init__
FsmInit ==
    /\ threshold_high = DefaultThresholdHigh
    /\ threshold_low = DefaultThresholdLow
    /\ current_state = STATE_NORMAL
    /\ last_state = STATE_NORMAL
    /\ state_timestamp = 0
    /\ condition_start_time = None

\* the ML fields after __init__, as <<use_ml, ml_trainer, ml_ready>>
\* (ml_trainer: whether a trainer object is held):
\*   - use_ml = False passed, or ML_AVAILABLE false;
\*   - MLModelTrainer() raised;  - load_all_models() raised;
\*   - the models loaded, is_trained false or true.
MLOff == <<FALSE, FALSE, FALSE>>
MLConstructed ==
    {MLOff, <<FALSE, TRUE, FALSE>>, <<TRUE, TRUE, FALSE>>,
     <<TRUE, TRUE, TRUE>>}
\* the ML fields are as c says
MLFields(c) == use_ml = c[1] /\ ml_trainer = c[2] /\ ml_ready = c[3]

\* the agent constructed where the ML module is not importable (as in this
\* source tree), or with use_ml = False
AgentInit ==
    /\ FsmInit
    /\ debounce_sec \in DebounceChoices
    /\ MLFields(MLOff)
    /\ trace = <<>>
    /\ first_run = <<>>

\* What the trainer's methods do during one update(): every call raises,
\* or predict_fault / detect_vibration_anomaly / predict_pressure return
\* these results (confidence and score in percent).
PredictorRaises ==
    [raises |-> TRUE, fault |-> FALSE, confidence |-> 0, anomaly |-> FALSE,
     score |-> 0, pressure_result |-> [predicted |-> 0]]
PredictorQuiet ==
    [raises |-> FALSE, fault |-> FALSE, confidence |-> 10, anomaly |-> FALSE,
     score |-> 5, pressure_result |-> [predicted |-> 40]]
PredictorFault ==
    [raises |-> FALSE, fault |-> TRUE, confidence |-> 95, anomaly |-> TRUE,
     score |-> 80, pressure_result |-> [predicted |-> 20]]
PredictorChoices == {PredictorRaises, PredictorQuiet, PredictorFault}

\* ml_insights = None (the dict returned otherwise always has entries)
NoInsights == <<>>
\* {'error': str(e)}
ErrorEntry == [error |-> "raised"]

\* _get_ml_predictions(rpm, pressure, temp, vib), the trainer behaving as p
get_ml_predictions(rpm, pressure, temp, vib, p) ==
    IF ~ml_trainer THEN NoInsights
    ELSE
      LET fault_detection ==
              IF p.raises THEN ErrorEntry
              ELSE [detected |-> p.fault, confidence |-> p.confidence]
          vibration_anomaly ==
              IF p.raises THEN ErrorEntry
              ELSE [detected |-> p.anomaly, score |-> p.score]
      IN  IF pressure > 0
          THEN [fault_detection |-> fault_detection,
                vibration_anomaly |-> vibration_anomaly,
                pressure_prediction |->
                    IF p.raises THEN ErrorEntry ELSE p.pressure_result]
          ELSE [fault_detection |-> fault_detection,
                vibration_anomaly |-> vibration_anomaly]

\* a faulty variant: the dwell must be strictly exceeded
DwellReached_strict(elapsed) == elapsed > debounce_sec
\* elapsed >= self.debounce_sec
DwellReached(elapsed) == elapsed >= debounce_sec

\* the timer after the "if self.condition_start_time is None" assignment
StartedTimer(current_time) ==
    IF condition_start_time = None THEN current_time ELSE condition_start_time

\* the rule-based branch of update(): <<new_state, condition_start_time>>
\* after the if/elif/else, before the state_changed test
RuleFSM(temp, current_time) ==
    IF temp > threshold_high THEN
        LET cst == StartedTimer(current_time) IN
        <<IF DwellReached(current_time - cst) THEN STATE_ALERT_HIGH
                                               ELSE current_state, cst>>
    ELSE IF temp < threshold_low THEN
        LET cst == StartedTimer(current_time) IN
        <<IF DwellReached(current_time - cst) THEN STATE_ALERT_LOW
                                               ELSE current_state, cst>>
    ELSE IF condition_start_time # None THEN
        IF DwellReached(current_time - condition_start_time)
            THEN <<STATE_NORMAL, None>>
            ELSE <<current_state, condition_start_time>>
    ELSE <<STATE_NORMAL, condition_start_time>>

\* timestamp of the latest update() call (0 at construction)
LastTimestamp == IF trace = <<>> THEN 0 ELSE trace[Len(trace)].timestamp

\* a faulty variant: a fault detected by the trainer is committed as the
\* state ML_PREDICTED_FAULT
update_mlfault(temp, timestamp_unix, rpm, pressure, vib, p) ==
    LET r == RuleFSM(temp, timestamp_unix)
        ml_insights == IF use_ml /\ ml_ready
                          THEN get_ml_predictions(rpm, pressure, temp, vib, p)
                          ELSE NoInsights
        new_state == IF use_ml /\ ml_ready /\ ~p.raises /\ p.fault
                        THEN STATE_ML_FAULT ELSE r[1]
        state_changed == new_state # current_state
    IN  /\ current_state' = new_state
        /\ last_state' = IF state_changed THEN current_state ELSE last_state
        /\ state_timestamp' = IF state_changed THEN timestamp_unix
                                               ELSE state_timestamp
        /\ condition_start_time' = IF state_changed THEN None ELSE r[2]
        /\ trace' = Append(trace, [timestamp |-> timestamp_unix,
                                   temperature |-> temp,
                                   rpm |-> rpm,
                                   pressure |-> pressure,
                                   vib |-> vib,
                                   predictor_raised |->
                                       use_ml /\ ml_ready /\ p.raises,
                                   state |-> new_state,
                                   state_changed |-> state_changed,
                                   ml_insights |-> ml_insights])
        /\ UNCHANGED <<threshold_high, threshold_low, debounce_sec, use_ml,
                       ml_trainer, ml_ready, first_run>>

\* update(temp, timestamp_unix, rpm, pressure, vib), the trainer behaving
\* as p if it is called
update(temp, timestamp_unix, rpm, pressure, vib, p) ==
    LET r == RuleFSM(temp, timestamp_unix)
        new_state == r[1]
        state_changed == new_state # current_state
        ml_insights == IF use_ml /\ ml_ready
                          THEN get_ml_predictions(rpm, pressure, temp, vib, p)
                          ELSE NoInsights
    IN  /\ current_state' = new_state
        /\ last_state' = IF state_changed THEN current_state ELSE last_state
        /\ state_timestamp' = IF state_changed THEN timestamp_unix
                                               ELSE state_timestamp
        /\ condition_start_time' = IF state_changed THEN None ELSE r[2]
        /\ trace' = Append(trace, [timestamp |-> timestamp_unix,
                                   temperature |-> temp,
                                   rpm |-> rpm,
                                   pressure |-> pressure,
                                   vib |-> vib,
                                   predictor_raised |->
                                       use_ml /\ ml_ready /\ p.raises,
                                   state |-> new_state,
                                   state_changed |-> state_changed,
                                   ml_insights |-> ml_insights])
        /\ UNCHANGED <<threshold_high, threshold_low, debounce_sec, use_ml,
                       ml_trainer, ml_ready, first_run>>

\* update(temp, timestamp_unix): rpm, pressure and vib at their default 0
Update(temp, timestamp_unix) ==
    update(temp, timestamp_unix, 0, 0, 0, PredictorQuiet)

\* one call of update() by the agent's client, timestamps non-decreasing
AgentUpdate ==
    /\ Len(trace) < MaxUpdates
    /\ \E temp \in AgentTemps, dt \in AgentSteps :
          Update(temp, LastTimestamp + dt)
    /\ UNCHANGED appVars

\* a faulty variant: the pending debounce timer survives reset()
AgentReset_keeptimer ==
    /\ current_state' = STATE_NORMAL
    /\ last_state' = STATE_NORMAL
    /\ \E dt \in AgentSteps : state_timestamp' = LastTimestamp + dt
    /\ UNCHANGED <<threshold_high, threshold_low, debounce_sec,
                   condition_start_time, use_ml, ml_trainer, ml_ready, trace,
                   first_run>>
    /\ UNCHANGED appVars

\* reset(), called some time after the latest update(); time.time() is the
\* clock the client takes its timestamps from
AgentReset ==
    /\ current_state' = STATE_NORMAL
    /\ last_state' = STATE_NORMAL
    /\ \E dt \in AgentSteps : state_timestamp' = LastTimestamp + dt
    /\ condition_start_time' = None
    /\ UNCHANGED <<threshold_high, threshold_low, debounce_sec, use_ml,
                   ml_trainer, ml_ready, trace, first_run>>
    /\ UNCHANGED appVars

\* one call of update() in the specification with reset()
ShortUpdate ==
    /\ Len(trace) < MaxResetUpdates
    /\ \E temp \in ResetTemps, dt \in AgentSteps :
          Update(temp, LastTimestamp + dt)
    /\ UNCHANGED appVars

\* one call of update() with the optional sensor arguments, in a first run
SensorUpdate ==
    /\ first_run = <<>>
    /\ Len(trace) < MaxReplayUpdates
    /\ \E temp \in ReplayTemps, dt \in ReplaySteps, s \in SensorChoices,
          p \in PredictorChoices :
          update(temp, LastTimestamp + dt, s.rpm, s.pressure, s.vib, p)
    /\ UNCHANGED appVars

\* the run ends; an agent is constructed anew, with the same thresholds and
\* debounce_sec, to be fed the same temperatures at the same timestamps
Rebuild ==
    /\ first_run = <<>>
    /\ trace # <<>>
    /\ first_run' = trace
    /\ trace' = <<>>
    /\ current_state' = STATE_NORMAL
    /\ last_state' = STATE_NORMAL
    /\ state_timestamp' = 0
    /\ condition_start_time' = None
    /\ \E c \in MLConstructed :
          use_ml' = c[1] /\ ml_trainer' = c[2] /\ ml_ready' = c[3]
    /\ UNCHANGED <<threshold_high, threshold_low, debounce_sec>>
    /\ UNCHANGED appVars

\* the next call of the earlier run repeated: same temperature and
\* timestamp, any sensor arguments, the trainer behaving in any way
Replay ==
    /\ Len(trace) < Len(first_run)
    /\ LET call == first_run[Len(trace) + 1] IN
       \E s \in SensorChoices, p \in PredictorChoices :
          update(call.temperature, call.timestamp, s.rpm, s.pressure, s.vib,
                 p)
    /\ UNCHANGED appVars

--------------------------------------------------------------------------
(* Reading the log of update() calls *)

IsHigh(i) == trace[i].temperature > threshold_high
IsLow(i) == trace[i].temperature < threshold_low
InBand(i) == ~IsHigh(i) /\ ~IsLow(i)
\* the committed state when call i was made
StateBefore(i) == IF i = 1 THEN STATE_NORMAL ELSE trace[i - 1].state
\* time from call i to call j
Span(i, j) == trace[j].timestamp - trace[i].timestamp
\* calls i..j are a maximal-to-the-left run of readings above threshold_high
HighRunFrom(i, j) ==
    /\ i <= j
    /\ \A m \in i..j : IsHigh(m)
    /\ (i = 1 \/ ~IsHigh(i - 1))
\* calls i..j are a maximal-to-the-left run of readings below threshold_low
LowRunFrom(i, j) ==
    /\ i <= j
    /\ \A m \in i..j : IsLow(m)
    /\ (i = 1 \/ ~IsLow(i - 1))
\* the number of calls among i..j that answered state_changed = true
Changes(i, j) == Cardinality({m \in i..j : trace[m].state_changed})

\* C1: an excursion above threshold_high that lasts less than debounce_sec
\* and is followed by a return to the in-range band produces no response
\* with state_changed = true, whatever readings preceded it.
C1_BlipSuppressed ==
    \A i, j \in 1..Len(trace) :
        ( /\ HighRunFrom(i, j)
          /\ j < Len(trace)
          /\ InBand(j + 1)
          /\ Span(i, j) < debounce_sec )
        => \A m \in i..(j + 1) : ~trace[m].state_changed

\* C2: from committed state NORMAL, a run of readings that stays above
\* threshold_high (below threshold_low) over a span of at least debounce_sec
\* produces exactly one state_changed = true, whose state is ALERT_HIGH
\* (ALERT_LOW), and none after it while the condition continues.
C2_SustainedCommitsOnce ==
    \A i, j \in 1..Len(trace) :
        ( /\ i <= j
          /\ StateBefore(i) = STATE_NORMAL
          /\ Span(i, j) >= debounce_sec )
        => /\ (\A m \in i..j : IsHigh(m))
                => /\ Changes(i, j) = 1
                   /\ \A m \in i..j : trace[m].state_changed
                                        => trace[m].state = STATE_ALERT_HIGH
           /\ (\A m \in i..j : IsLow(m))
                => /\ Changes(i, j) = 1
                   /\ \A m \in i..j : trace[m].state_changed
                                        => trace[m].state = STATE_ALERT_LOW

\* C2 witness: with a positive dwell, a high run from NORMAL has lasted the
\* dwell, committed ALERT_HIGH once, and gone on after the commit.
C2_Witness ==
    /\ debounce_sec > 0
    /\ \E i, k, j \in 1..Len(trace) :
          /\ i < k /\ k < j
          /\ StateBefore(i) = STATE_NORMAL
          /\ \A m \in i..j : IsHigh(m)
          /\ Span(i, k) >= debounce_sec
          /\ trace[k].state_changed
          /\ trace[k].state = STATE_ALERT_HIGH
          /\ Changes(i, j) = 1

\* C3: the committed state changes from an alert state to NORMAL only after
\* the temperature has been in the in-range band on every update for a
\* contiguous span of at least debounce_sec.
C3_RevertDebounced ==
    \A k \in 1..Len(trace) :
        ( /\ trace[k].state_changed
          /\ trace[k].state = STATE_NORMAL )
        => \E i \in 1..k :
              /\ \A m \in i..k : InBand(m)
              /\ Span(i, k) >= debounce_sec

\* C4: when the temperature is above threshold_high for less than
\* debounce_sec and then drops below threshold_low (or the reverse), the new
\* condition is committed only once it has itself lasted debounce_sec,
\* measured from its own first reading.
C4_TimerRestarts ==
    \A h, i, k \in 1..Len(trace) :
        /\ ( /\ HighRunFrom(h, i - 1)
             /\ Span(h, i - 1) < debounce_sec
             /\ trace[i - 1].state # STATE_ALERT_HIGH
             /\ LowRunFrom(i, k)
             /\ trace[k].state_changed
             /\ trace[k].state = STATE_ALERT_LOW )
           => Span(i, k) >= debounce_sec
        /\ ( /\ LowRunFrom(h, i - 1)
             /\ Span(h, i - 1) < debounce_sec
             /\ trace[i - 1].state # STATE_ALERT_LOW
             /\ HighRunFrom(i, k)
             /\ trace[k].state_changed
             /\ trace[k].state = STATE_ALERT_HIGH )
           => Span(i, k) >= debounce_sec

--------------------------------------------------------------------------
(* mock_data.py: generate_mock_tick *)

\* round(): n/d to the nearest integer, a tie to the even neighbour (d > 0)
RoundHalfEven(n, d) ==
    LET q == n \div d
        r == n % d
    IN  IF 2 * r < d THEN q
        ELSE IF 2 * r > d THEN q + 1
        ELSE IF q % 2 = 0 THEN q ELSE q + 1

\* a faulty variant: the drift rate is left out of phase 3
Temperature_flat(sim, initial_temp_f, drift_rate_f) ==
    IF sim <= 1000 THEN
        100 * initial_temp_f + RoundHalfEven(120 * sim, 100)
    ELSE IF sim <= 4000 THEN
        100 * initial_temp_f + 1200 + RoundHalfEven(5 * (sim - 1000), 100)
    ELSE
        100 * initial_temp_f + 1200 + 30 * 5

\* a faulty variant: phase 2 starts again from the initial temperature
Temperature_restart(sim, initial_temp_f, drift_rate_f) ==
    IF sim <= 1000 THEN
        100 * initial_temp_f + RoundHalfEven(120 * sim, 100)
    ELSE IF sim <= 4000 THEN
        100 * initial_temp_f + RoundHalfEven(5 * (sim - 1000), 100)
    ELSE
        100 * initial_temp_f + 1200 + 30 * 5
            + RoundHalfEven(drift_rate_f * (sim - 4000), 100)

\* a faulty variant: the drift accumulated in phase 2 is left out of phase 3
Temperature_nophase2(sim, initial_temp_f, drift_rate_f) ==
    IF sim <= 1000 THEN
        100 * initial_temp_f + RoundHalfEven(120 * sim, 100)
    ELSE IF sim <= 4000 THEN
        100 * initial_temp_f + 1200 + RoundHalfEven(5 * (sim - 1000), 100)
    ELSE
        100 * initial_temp_f + 1200
            + RoundHalfEven(drift_rate_f * (sim - 4000), 100)

\* the temperature model: sim in cs, initial_temp_f in degrees, drift_rate_f
\* in hundredths of a degree per second; the result in hundredths, after
\* round(temperature, 2)
Temperature(sim, initial_temp_f, drift_rate_f) ==
    IF sim <= 1000 THEN
        100 * initial_temp_f + RoundHalfEven(120 * sim, 100)
    ELSE IF sim <= 4000 THEN
        100 * initial_temp_f + 1200 + RoundHalfEven(5 * (sim - 1000), 100)
    ELSE
        100 * initial_temp_f + 1200 + 30 * 5
            + RoundHalfEven(drift_rate_f * (sim - 4000), 100)

\* a faulty variant: the ALERT_HIGH test comes first
Classify_highfirst(temperature, high_threshold_f, low_threshold_f) ==
    IF temperature >= 100 * high_threshold_f THEN "ALERT_HIGH"
    ELSE IF temperature >= 100 * (high_threshold_f + 10) THEN "CRITICAL"
    ELSE IF temperature <= 100 * low_threshold_f THEN "ALERT_LOW"
    ELSE "NORMAL"
\* the state logic: temperature in hundredths, thresholds in degrees
Classify(temperature, high_threshold_f, low_threshold_f) ==
    IF temperature >= 100 * (high_threshold_f + 10) THEN "CRITICAL"
    ELSE IF temperature >= 100 * high_threshold_f THEN "ALERT_HIGH"
    ELSE IF temperature <= 100 * low_threshold_f THEN "ALERT_LOW"
    ELSE "NORMAL"

\* generate_mock_tick at wall-clock time current_time, with start_time and
\* the four slider values; simulation_time is returned in tenths of a
\* second, after round(simulation_time, 1)
generate_mock_tick(current_time, start, it, dr, hi, lo) ==
    LET simulation_time == current_time - start
        temperature == Temperature(simulation_time, it, dr)
    IN  [timestamp |-> current_time,
         simulation_time |-> RoundHalfEven(simulation_time, 10),
         temperature_f |-> temperature,
         state |-> Classify(temperature, hi, lo)]

--------------------------------------------------------------------------
(* app.py: one rerun of the script *)

\* What the random module returns in one rerun: randint(-200, 200),
\* uniform(3, 8) in hundredths, uniform(12.2, 13.8) in hundredths and
\* uniform(0.85, 0.99) in hundredths; the ends of each range.
DrawLow == [jitter |-> -200, vib |-> 300, volt |-> 1220, conf |-> 85]
DrawHigh == [jitter |-> 200, vib |-> 800, volt |-> 1380, conf |-> 99]
Draws == {DrawLow, DrawHigh}

Max2(a, b) == IF a >= b THEN a ELSE b

\* the reading with the derived mock sensors and the mock ML outputs
full_tick(base_tick, count, high, d) ==
    LET rpm == 1800 + d.jitter
        \* max(10, 60 - rpm / 100), in hundredths of a PSI
        oil_pressure == Max2(1000, 6000 - rpm)
        \* max(2, uniform(3, 8) + 0.05 * tick_count), in hundredths
        vibration == Max2(200, d.vib + 5 * count)
    IN  [timestamp |-> base_tick.timestamp,
         simulation_time |-> base_tick.simulation_time,
         temperature_f |-> base_tick.temperature_f,
         state |-> base_tick.state,
         rpm |-> rpm,
         oil_pressure_psi |-> RoundHalfEven(oil_pressure, 10),
         vibration_mms |-> vibration,
         voltage_v |-> d.volt,
         ml |-> [fault_detected |-> base_tick.temperature_f > 100 * high,
                 confidence |-> d.conf,
                 vibration_anomaly |-> vibration > 1800]]

\* s[-n:]
LastN(s, n) == IF Len(s) > n THEN SubSeq(s, Len(s) - n + 1, Len(s)) ELSE s

\* the capacities written in the data update loop
HISTORY_MAX_POINTS == 300
ALERT_MAX_POINTS == 100

\* time.strftime("%H:%M:%S"): the second of the day
ClockString(t) == (t \div 100) % 86400

\* a faulty variant: the history keeps one reading fewer
HistoryAfter_short(history, tick) ==
    LET h == Append(history, tick)
    IN  IF Len(h) > HISTORY_MAX_POINTS - 1
        THEN LastN(h, HISTORY_MAX_POINTS - 1) ELSE h
\* sensor_history.append(full_tick) and the truncation that follows
HistoryAfter(history, tick) ==
    LET h == Append(history, tick)
    IN  IF Len(h) > HISTORY_MAX_POINTS THEN LastN(h, HISTORY_MAX_POINTS) ELSE h

\* the alert appended on a state change
AlertEntry(prev, tick, t) ==
    [time |-> ClockString(t),
     message |-> <<prev.state, tick.state>>,
     severity |-> IF tick.state = "CRITICAL" THEN "CRITICAL" ELSE "WARNING"]

\* a faulty variant: urgent priority for any high state
TaskEntry_anyhigh(tick, conf) ==
    [priority |-> IF tick.state \in {"CRITICAL", "ALERT_HIGH"} THEN 1 ELSE 2,
     task |-> "Inspect cooling system",
     status |-> "Pending",
     confidence |-> conf]
\* the task appended on a state change
TaskEntry(tick, conf) ==
    [priority |-> IF tick.state = "CRITICAL" THEN 1 ELSE 2,
     task |-> "Inspect cooling system",
     status |-> "Pending",
     confidence |-> conf]

\* alert logic: does this tick append an alert and a task? h is the history
\* after the append and truncation
StateChanged(h) == Len(h) > 1 /\ h[Len(h) - 1].state # h[Len(h)].state

\* alert_history after the alert logic
AlertsAfter(alerts, h, t) ==
    IF StateChanged(h)
    THEN LET a == Append(alerts, AlertEntry(h[Len(h) - 1], h[Len(h)], t))
         IN  IF Len(a) > ALERT_MAX_POINTS THEN LastN(a, ALERT_MAX_POINTS)
                                          ELSE a
    ELSE alerts

\* scheduler after the alert logic
SchedulerAfter(tasks, h, conf) ==
    IF StateChanged(h) THEN Append(tasks, TaskEntry(h[Len(h)], conf))
                       ELSE tasks

\* The data update loop, entered with running = True: the session state
\* after it.  t is time.time(), start the session's start_time.
DataUpdate(t, start, it, dr, hi, lo, d) ==
    LET base == generate_mock_tick(t, start, it, dr, hi, lo)
        tick == full_tick(base, tick_count, hi, d)
        h == HistoryAfter(sensor_history, tick)
    IN  /\ sensor_history' = h
        /\ tick_count' = tick_count + 1
        /\ alert_history' = AlertsAfter(alert_history, h, t)
        /\ scheduler' = SchedulerAfter(scheduler, h, d.conf)
        /\ emitted' = Append(emitted, tick)

\* a faulty variant: the data update loop is entered whatever the run flag
Rerun_always(button, it, dr, hi, lo, dt, d) ==
    LET t == now + dt
        running1 == IF button = "start" THEN TRUE
                    ELSE IF button = "stop" THEN FALSE ELSE running
        start1 == IF button = "start" /\ start_time = None THEN t
                  ELSE start_time
    IN  /\ running' = running1
        /\ start_time' = start1
        /\ initial_temp' = it
        /\ drift_rate' = dr
        /\ high_threshold' = hi
        /\ low_threshold' = lo
        /\ now' = t
        /\ DataUpdate(t, start1, it, dr, hi, lo, d)
        /\ UNCHANGED agentVars

\* a faulty variant: "Start" stamps the start time at every press
Rerun_restamp(button, it, dr, hi, lo, dt, d) ==
    LET t == now + dt
        running1 == IF button = "start" THEN TRUE
                    ELSE IF button = "stop" THEN FALSE ELSE running
        start1 == IF button = "start" THEN t ELSE start_time
    IN  /\ running' = running1
        /\ start_time' = start1
        /\ initial_temp' = it
        /\ drift_rate' = dr
        /\ high_threshold' = hi
        /\ low_threshold' = lo
        /\ IF running1
           THEN /\ now' = t
                /\ DataUpdate(t, start1, it, dr, hi, lo, d)
           ELSE /\ now' = now
                /\ UNCHANGED <<tick_count, sensor_history, alert_history,
                               scheduler, emitted>>
        /\ UNCHANGED agentVars

\* One rerun of the script: the button pressed ("start", "stop" or "none"),
\* the slider positions read, dt the time since the clock was last read and d
\* the random draws.  The clock is read only when the run ends up running.
Rerun(button, it, dr, hi, lo, dt, d) ==
    LET t == now + dt
        running1 == IF button = "start" THEN TRUE
                    ELSE IF button = "stop" THEN FALSE ELSE running
        start1 == IF button = "start" /\ start_time = None THEN t
                  ELSE start_time
    IN  /\ running' = running1
        /\ start_time' = start1
        /\ initial_temp' = it
        /\ drift_rate' = dr
        /\ high_threshold' = hi
        /\ low_threshold' = lo
        /\ IF running1
           THEN /\ now' = t
                /\ DataUpdate(t, start1, it, dr, hi, lo, d)
           ELSE /\ now' = now
                /\ UNCHANGED <<tick_count, sensor_history, alert_history,
                               scheduler, emitted>>
        /\ UNCHANGED agentVars

\* the session_state defaults
SessionInit ==
    /\ running = FALSE
    /\ start_time = None
    /\ tick_count = 0
    /\ sensor_history = <<>>
    /\ alert_history = <<>>
    /\ scheduler = <<>>
    /\ emitted = <<>>
    /\ now = 0

\* the sliders' default positions
AppInit ==
    /\ SessionInit
    /\ initial_temp = 60
    /\ drift_rate = 50
    /\ high_threshold = 85
    /\ low_threshold = 50

\* "Start" pressed
Start ==
    /\ tick_count < MaxTicks
    /\ \E dt \in Steps :
          Rerun("start", initial_temp, drift_rate, high_threshold,
                low_threshold, dt, DrawLow)

\* "Stop" pressed
Stop ==
    /\ running
    /\ Rerun("stop", initial_temp, drift_rate, high_threshold, low_threshold,
             0, DrawLow)

\* "Reset" pressed: session_state.clear(), then st.rerun() restores the
\* defaults; the sliders keep their positions.  Nothing of the old session
\* is left to compare a time with, so the clock is counted anew from here.
Reset ==
    /\ running' = FALSE
    /\ start_time' = None
    /\ tick_count' = 0
    /\ sensor_history' = <<>>
    /\ alert_history' = <<>>
    /\ scheduler' = <<>>
    /\ emitted' = <<>>
    /\ now' = 0
    /\ UNCHANGED <<sliderVars, agentVars>>

\* the periodic st_autorefresh rerun
Refresh ==
    /\ running => tick_count < MaxTicks
    /\ \E dt \in Steps, d \in Draws :
          Rerun("none", initial_temp, drift_rate, high_threshold,
                low_threshold, dt, d)

\* the st_autorefresh rerun arriving on its interval
TimerRefresh ==
    /\ running => tick_count < MaxTicks
    /\ \E dt \in RefreshSteps :
          Rerun("none", initial_temp, drift_rate, high_threshold,
                low_threshold, dt, DrawLow)

\* a slider moved: the script reruns with the new position (the drift-rate
\* slider stays where it is in the interactive specification)
MoveSlider ==
    /\ running => tick_count < MaxTicks
    /\ \E dt \in Steps :
       LET d == DrawLow IN
          \/ \E v \in InitialTempChoices \ {initial_temp} :
                Rerun("none", v, drift_rate, high_threshold, low_threshold,
                      dt, d)
          \/ \E v \in HighChoices \ {high_threshold} :
                Rerun("none", initial_temp, drift_rate, v, low_threshold,
                      dt, d)
          \/ \E v \in LowChoices \ {low_threshold} :
                Rerun("none", initial_temp, drift_rate, high_threshold, v,
                      dt, d)

\* the agent as constructed with its default arguments
AgentDefault == AgentInit /\ debounce_sec = DefaultDebounce

\* the agent constructed where the ML module is importable
AgentInitML ==
    /\ FsmInit
    /\ debounce_sec = DefaultDebounce
    /\ \E c \in MLConstructed : MLFields(c)
    /\ trace = <<>>
    /\ first_run = <<>>

Init == AgentInit /\ AppInit
InitReplay == AgentInitML /\ AppInit
InitApp == AgentDefault /\ AppInit

AppNext == Start \/ Stop \/ Reset \/ Refresh \/ MoveSlider

--------------------------------------------------------------------------
(* Long runs *)

\* the sliders set before the run starts
LongInit ==
    /\ AgentDefault
    /\ SessionInit
    /\ initial_temp \in InitialTempChoices
    /\ drift_rate \in DriftChoices
    /\ high_threshold = 85
    /\ low_threshold = 50

\* "Start" pressed, once
LongStart ==
    /\ ~running
    /\ tick_count = 0
    /\ \E dt \in RefreshSteps :
          Rerun("start", initial_temp, drift_rate, high_threshold,
                low_threshold, dt, DrawLow)

\* the unattended dashboard: only the refresh timer reruns the script
SteadyRefresh ==
    /\ running
    /\ tick_count < MaxSteadyTicks
    /\ \E dt \in RefreshSteps :
          Rerun("none", initial_temp, drift_rate, high_threshold,
                low_threshold, dt, DrawLow)

\* the operator drags the high-threshold slider from one end (70) to the
\* other (110) and back, once per rerun
FlapRefresh ==
    /\ running
    /\ tick_count < MaxFlapTicks
    /\ \E dt \in RefreshSteps :
          Rerun("none", initial_temp, drift_rate,
                IF high_threshold = 110 THEN 70 ELSE 110, low_threshold,
                dt, DrawLow)

\* "Start" pressed once, the sliders at their defaults
ScenarioStart ==
    /\ ~running
    /\ tick_count = 0
    /\ \E dt \in ScenarioSteps :
          Rerun("start", initial_temp, drift_rate, high_threshold,
                low_threshold, dt, DrawLow)

\* reruns of the running dashboard, whole seconds apart
ScenarioRefresh ==
    /\ running
    /\ tick_count < MaxScenarioTicks
    /\ \E dt \in ScenarioSteps :
          Rerun("none", initial_temp, drift_rate, high_threshold,
                low_threshold, dt, DrawLow)

\* the four sliders set, in any of their positions, before the run starts
DriftInit ==
    /\ AgentDefault
    /\ SessionInit
    /\ initial_temp \in InitialTempChoices
    /\ drift_rate \in DriftChoices
    /\ high_threshold \in HighChoices
    /\ low_threshold \in LowChoices

\* "Start" pressed again after "Stop", the session's readings kept
Resume ==
    /\ ~running
    /\ tick_count > 0
    /\ tick_count < MaxSteadyTicks
    /\ \E dt \in RefreshSteps :
          Rerun("start", initial_temp, drift_rate, high_threshold,
                low_threshold, dt, DrawLow)

\* the agent driven by its client
SpecAgent == Init /\ [][AgentUpdate]_vars
\* the dashboard driven by its operator and the refresh timer
SpecApp == InitApp /\ [][AppNext]_vars
\* the dashboard left running unattended
SpecSteady == LongInit /\ [][LongStart \/ SteadyRefresh]_vars
\* the dashboard while a threshold is moved at every rerun
SpecFlap == LongInit /\ [][LongStart \/ FlapRefresh]_vars

\* the dashboard at its default configuration, ticking at whole seconds
SpecScenario == InitApp /\ [][ScenarioStart \/ ScenarioRefresh]_vars
\* the dashboard run at one slider configuration, stopped, resumed and reset
SpecDrift ==
    DriftInit /\ [][LongStart \/ SteadyRefresh \/ Stop \/ Resume
                    \/ Reset]_vars
\* the same, the refresh timer firing for as long as the page is open:
\* st_autorefresh reruns the script on its interval, so a rerun of the
\* running dashboard that stays due is eventually made
SpecDriftLive == SpecDrift /\ WF_vars(SteadyRefresh)
\* the dashboard with its sliders left at their defaults: every reading of
\* the session is generated under one configuration
SpecFixed ==
    InitApp /\ [][Start \/ Stop \/ Reset \/ Refresh \/ TimerRefresh]_vars
\* an agent with its ML hook run twice on the same temperatures
SpecReplay == InitReplay /\ [][SensorUpdate \/ Rebuild \/ Replay]_vars
\* the dashboard and an agent, each with its reset, side by side
SpecReset ==
    InitApp /\ [][Start \/ Stop \/ Reset \/ TimerRefresh \/ ShortUpdate
                  \/ AgentReset]_vars

--------------------------------------------------------------------------
(* Reading the dashboard's session state *)

\* the state held before tick i of the run: the previous tick's state, or
\* the initial state NORMAL when there is no previous tick
HeldBefore(i) == IF i = 1 THEN "NORMAL" ELSE emitted[i - 1].state

\* the ticks, from the second on, whose state differs from the state of
\* the tick before
ChangeSet ==
    {i \in 2..Len(emitted) : emitted[i].state # emitted[i - 1].state}
\* the k-th of them
NthChange(k) ==
    CHOOSE i \in ChangeSet : Cardinality({x \in ChangeSet : x <= i}) = k

\* the latest reading
Latest == sensor_history[Len(sensor_history)]

\* C5: an alert is appended on exactly the ticks whose state differs from
\* the state held before (NORMAL before the first tick), so the alerts
\* appended number the state changes since the initial NORMAL state (while
\* the log has not reached its capacity).
C5_AlertPerStateChange ==
    Len(emitted) <= ALERT_MAX_POINTS
    => Len(alert_history)
         = Cardinality({i \in 1..Len(emitted) :
                           emitted[i].state # HeldBefore(i)})

\* C6: a tick appends a maintenance task only when it is a state change
\* whose new state is not NORMAL; a state change into NORMAL appends an
\* alert but no task.
C6_TaskOnlyForNonNormal ==
    [][ Len(emitted') = Len(emitted) + 1
        => LET new == emitted'[Len(emitted')].state
               changed == new # HeldBefore(Len(emitted'))
           IN  /\ Len(scheduler') > Len(scheduler)
                    => changed /\ new # "NORMAL"
               /\ (changed /\ new = "NORMAL")
                    => /\ Len(scheduler') = Len(scheduler)
                       /\ alert_history' # alert_history ]_vars

\* C7: every alert has severity CRITICAL exactly when the state of the tick
\* that appended it is CRITICAL and WARNING otherwise; every task has
\* priority 1 exactly when the state of the tick that appended it is
\* CRITICAL and 2 otherwise, and status "Pending".
C7_SeverityAndPriority ==
    LET n == Cardinality(ChangeSet) IN
    /\ Len(scheduler) <= n
    /\ Len(alert_history) <= n
    /\ \A k \in 1..Len(scheduler) :
          /\ scheduler[k].priority
               = (IF emitted[NthChange(k)].state = "CRITICAL" THEN 1 ELSE 2)
          /\ scheduler[k].status = "Pending"
    /\ \A j \in 1..Len(alert_history) :
          alert_history[j].severity
            = (IF emitted[NthChange(n - Len(alert_history) + j)].state
                    = "CRITICAL"
               THEN "CRITICAL" ELSE "WARNING")

\* C7 witness: the log holds a CRITICAL alert and a WARNING alert, the
\* scheduler an urgent task and an ordinary one.
C7_Witness ==
    /\ \E j \in 1..Len(alert_history) : alert_history[j].severity = "CRITICAL"
    /\ \E j \in 1..Len(alert_history) : alert_history[j].severity = "WARNING"
    /\ \E k \in 1..Len(scheduler) : scheduler[k].priority = 1
    /\ \E k \in 1..Len(scheduler) : scheduler[k].priority = 2

\* C8: the state of a reading is CRITICAL iff temperature >= high + 10,
\* ALERT_HIGH iff high <= temperature < high + 10, ALERT_LOW iff
\* temperature <= low and temperature < high, NORMAL otherwise; exactly one
\* level is returned.  (While running, the latest reading was classified
\* with the thresholds the sliders show.)
C8_ClassifierPrecedence ==
    running =>
        LET T == Latest.temperature_f
            H == 100 * high_threshold
            L == 100 * low_threshold
            s == Latest.state
        IN  /\ s \in {"CRITICAL", "ALERT_HIGH", "ALERT_LOW", "NORMAL"}
            /\ (s = "CRITICAL") <=> (T >= H + 1000)
            /\ (s = "ALERT_HIGH") <=> (H <= T /\ T < H + 1000)
            /\ (s = "ALERT_LOW") <=> (T <= L /\ T < H)
            /\ (s = "NORMAL") <=> (T < H /\ T > L)

\* C8 witness: a reading exactly 10 degrees above the high threshold, and
\* at or below the low threshold, was classified CRITICAL.
C8_Witness ==
    /\ running
    /\ Latest.temperature_f = 100 * (high_threshold + 10)
    /\ Latest.temperature_f <= 100 * low_threshold
    /\ Latest.state = "CRITICAL"

\* C9: the sensor history never holds more than its capacity; after n ticks
\* it holds min(n, 300) readings, the most recent ones in tick order.
C9_BoundedHistory ==
    /\ Len(emitted) = tick_count
    /\ Len(sensor_history) <= HISTORY_MAX_POINTS
    /\ Len(sensor_history) = (IF tick_count <= HISTORY_MAX_POINTS
                                 THEN tick_count ELSE HISTORY_MAX_POINTS)
    /\ \A j \in 1..Len(sensor_history) :
          sensor_history[j]
            = emitted[Len(emitted) - Len(sensor_history) + j]

\* C9 witness: more ticks than the capacity, the oldest readings evicted.
C9_Witness ==
    /\ tick_count > HISTORY_MAX_POINTS + 1
    /\ Len(sensor_history) = HISTORY_MAX_POINTS
    /\ sensor_history[1] = emitted[tick_count - HISTORY_MAX_POINTS + 1]
    /\ sensor_history[1] # emitted[1]

\* C10: the alert log holds at most 100 entries, the most recent ones in
\* order, and the task queue likewise never grows beyond that capacity.
C10_QueuesBounded ==
    LET n == Cardinality(ChangeSet) IN
    /\ Len(alert_history) <= ALERT_MAX_POINTS
    /\ Len(alert_history) = (IF n <= ALERT_MAX_POINTS
                                THEN n ELSE ALERT_MAX_POINTS)
    /\ \A j \in 1..Len(alert_history) :
          LET i == NthChange(n - Len(alert_history) + j)
          IN  alert_history[j].message
                = <<emitted[i - 1].state, emitted[i].state>>
    /\ Len(scheduler) <= ALERT_MAX_POINTS

\* C11: "Stop", and every rerun of the script that finds the run flag off
\* (the refresh timer, a slider moved), leaves the sensor history, the
\* alert log, the scheduler, the tick count and the start time as they were.
C11_StoppedIsNoOp ==
    [][ (Stop \/ (~running /\ (Refresh \/ MoveSlider)))
        => UNCHANGED <<sensor_history, alert_history, scheduler, tick_count,
                       start_time>> ]_vars

\* C11 witness: stopped after a run, with readings, an alert and a task
\* still held.
C11_Witness ==
    /\ ~running
    /\ start_time # None
    /\ tick_count > 0
    /\ Len(sensor_history) = tick_count
    /\ alert_history # <<>>
    /\ scheduler # <<>>

\* C12: "Start" leaves the run flag on; the first "Start" stamps the start
\* time with the time of that rerun, and from then on only "Reset" changes
\* it; "Start" pressed while running changes neither the flag nor the start
\* time, and the rerun it causes is the rerun of the refresh timer.
C12_StartOnce ==
    [][ /\ Start => running'
        /\ (Start /\ start_time = None) => start_time' = now'
        /\ (start_time # None /\ start_time' # start_time) => Reset
        /\ (Start /\ running)
             => /\ start_time' = start_time
                /\ \E dt \in Steps :
                      Rerun("none", initial_temp, drift_rate, high_threshold,
                            low_threshold, dt, DrawLow) ]_vars

\* C12 witness: running again after readings were taken, the start time
\* still the time of the first reading.
C12_Witness ==
    /\ running
    /\ tick_count >= 2
    /\ start_time = emitted[1].timestamp
    /\ Latest.timestamp > start_time

\* C13: "Reset" leaves the session state as the defaults make it: stopped,
\* no start time, tick count 0, sensor history, alert log and scheduler
\* empty; the agent's reset() leaves its committed state NORMAL and no
\* debounce timer pending.
C13_ResetToInitial ==
    [][ /\ Reset => SessionInit'
        /\ AgentReset => /\ current_state' = STATE_NORMAL
                         /\ last_state' = STATE_NORMAL
                         /\ condition_start_time' = None ]_vars

\* C13 witness: the agent had committed ALERT_HIGH with its latest
\* response and was reset; the dashboard's session is in its defaults.
C13_Witness ==
    /\ trace # <<>>
    /\ trace[Len(trace)].state = STATE_ALERT_HIGH
    /\ current_state = STATE_NORMAL
    /\ condition_start_time = None
    /\ state_timestamp > LastTimestamp
    /\ SessionInit

\* the calls repeated so far were answered with the same state and the
\* same state_changed flag as in the earlier run
SameAnswers ==
    \A i \in 1..Len(trace) :
        i <= Len(first_run)
        => /\ trace[i].state = first_run[i].state
           /\ trace[i].state_changed = first_run[i].state_changed

\* C14: whatever the predictor does (disabled, raising at every call,
\* working), a run repeated on the same temperatures and timestamps gets
\* the same (state, state_changed) answers, every call is answered, and on
\* every call made with the predictor disabled or raising the response's
\* ml_insights is None.
C14_FailureIsolation ==
    /\ SameAnswers
    /\ \A i \in 1..Len(trace) :
          (~(use_ml /\ ml_ready) \/ trace[i].predictor_raised)
          => trace[i].ml_insights = NoInsights

\* C15: a rerun that reads slider positions with low threshold >= high
\* threshold does not leave the dashboard running when "Start" is pressed
\* and appends no reading, alert or task; an agent whose low threshold is
\* not below its high threshold, or whose debounce_sec is negative, answers
\* no update().
C15_InvalidConfigRejected ==
    [][ /\ low_threshold' >= high_threshold'
            => /\ Start => ~running'
               /\ Len(emitted') <= Len(emitted)
               /\ Len(alert_history') <= Len(alert_history)
               /\ Len(scheduler') <= Len(scheduler)
        /\ (threshold_low >= threshold_high \/ debounce_sec < 0)
            => trace' = trace ]_vars

\* the readings taken at simulation time t (tenths of a second)
ReadingsAt(t) == {i \in 1..Len(emitted) : emitted[i].simulation_time = t}

\* C16 as stated: with initial temperature 60, drift rate 0.5, thresholds
\* 85 and 50, the readings at simulation times 0, 5, 10, 41, 42 and 43 s
\* are 60.0, 66.0, 72.0, 72.75, 73.25 and 73.75 degrees, all NORMAL.
C16_ScenarioAsStated ==
    \A pair \in {<<0, 6000>>, <<50, 6600>>, <<100, 7200>>, <<410, 7275>>,
                 <<420, 7325>>, <<430, 7375>>} :
        \A i \in ReadingsAt(pair[1]) :
            /\ emitted[i].temperature_f = pair[2]
            /\ emitted[i].state = "NORMAL"

\* C16 amended: the readings at simulation times 0, 5, 10, 41, 42 and 43 s
\* are 60.0, 66.0, 72.0, 74.0, 74.5 and 75.0 degrees, all NORMAL.
C16_Scenario ==
    \A pair \in {<<0, 6000>>, <<50, 6600>>, <<100, 7200>>, <<410, 7400>>,
                 <<420, 7450>>, <<430, 7500>>} :
        \A i \in ReadingsAt(pair[1]) :
            /\ emitted[i].temperature_f = pair[2]
            /\ emitted[i].state = "NORMAL"

\* C16 witness: the six ticks of the scenario, in order.
C16_Witness ==
    /\ Len(emitted) = 6
    /\ [i \in 1..6 |-> emitted[i].simulation_time]
         = <<0, 50, 100, 410, 420, 430>>
    /\ initial_temp = 60 /\ drift_rate = 50
    /\ high_threshold = 85 /\ low_threshold = 50

\* C17: any two readings of a session (one configuration) that carry the
\* same simulation_time carry the same temperature_f, and simulation_time
\* never decreases from one reading to the next.
C17_Determinism ==
    /\ \A i, j \in 1..Len(emitted) :
          emitted[i].simulation_time = emitted[j].simulation_time
          => emitted[i].temperature_f = emitted[j].temperature_f
    /\ \A i \in 1..Len(emitted) - 1 :
          emitted[i].simulation_time <= emitted[i + 1].simulation_time

\* the instantaneous condition of the reading of call i
Condition(i) ==
    IF IsHigh(i) THEN STATE_ALERT_HIGH
    ELSE IF IsLow(i) THEN STATE_ALERT_LOW ELSE STATE_NORMAL

\* C18: after an update() whose reading's condition equals the state that
\* was committed when the call was made, no debounce timer is pending.
C18_TimerClearedOnMatch ==
    trace # <<>>
    => (Condition(Len(trace)) = StateBefore(Len(trace))
        => condition_start_time = None)

\* the call i..j readings all equal to temperature t
HeldAt(t, i, j) == i <= j /\ \A m \in i..j : trace[m].temperature = t

\* C19: the agent compares as the classifier does (>= high, <= low): a
\* reading is a high condition for the agent exactly when the classifier
\* answers ALERT_HIGH or CRITICAL, and a low condition exactly when it
\* answers ALERT_LOW; a temperature equal to threshold_high (threshold_low)
\* held from committed NORMAL for debounce_sec or longer is answered with
\* ALERT_HIGH (ALERT_LOW).
C19_OneComparisonPolicy ==
    /\ \A i \in 1..Len(trace) :
          LET level == Classify(trace[i].temperature, threshold_high \div 100,
                                threshold_low \div 100)
          IN  /\ IsHigh(i) <=> level \in {"ALERT_HIGH", "CRITICAL"}
              /\ IsLow(i) <=> level = "ALERT_LOW"
    /\ \A i, j \in 1..Len(trace) :
          (StateBefore(i) = STATE_NORMAL /\ Span(i, j) >= debounce_sec)
          => /\ HeldAt(threshold_high, i, j)
                  => \E m \in i..j : trace[m].state = STATE_ALERT_HIGH
             /\ HeldAt(threshold_low, i, j)
                  => \E m \in i..j : trace[m].state = STATE_ALERT_LOW

Rank(state) ==
    CASE state = "ALERT_LOW" -> 0
      [] state = "NORMAL" -> 1
      [] state = "ALERT_HIGH" -> 2
      [] state = "CRITICAL" -> 3

\* C21: in a session run at one configuration, the temperature of each
\* reading is at least that of the reading before, through all three
\* phases; with low threshold < high threshold the state of each reading is
\* the state of the reading before or one further along ALERT_LOW, NORMAL,
\* ALERT_HIGH, CRITICAL, and the alert log holds at most three alerts.
C21_ForwardOnly ==
    /\ \A i \in 1..Len(emitted) - 1 :
          /\ emitted[i].simulation_time <= emitted[i + 1].simulation_time
          /\ emitted[i].temperature_f <= emitted[i + 1].temperature_f
    /\ low_threshold < high_threshold
        => /\ \A i \in 1..Len(emitted) - 1 :
                 Rank(emitted[i].state) <= Rank(emitted[i + 1].state)
           /\ Len(alert_history) <= 3

\* C21 witness: a session that began ALERT_LOW in phase 1 and has reached
\* CRITICAL in phase 3, three alerts logged.
C21_Witness ==
    /\ low_threshold < high_threshold
    /\ Len(emitted) > 1
    /\ emitted[1].state = "ALERT_LOW"
    /\ emitted[1].simulation_time = 0
    /\ emitted[Len(emitted)].state = "CRITICAL"
    /\ emitted[Len(emitted)].simulation_time > 400
    /\ Len(alert_history) = 3
    /\ \E i \in 1..Len(emitted) :
          emitted[i].simulation_time > 100 /\ emitted[i].simulation_time < 400

\* the latest reading of the session is CRITICAL
CriticalNow ==
    emitted # <<>> /\ emitted[Len(emitted)].state = "CRITICAL"
\* the first reading of the session was not CRITICAL
FirstNotCritical == emitted # <<>> /\ emitted[1].state # "CRITICAL"
\* the alert log holds an alert of severity CRITICAL
CriticalAlertLogged ==
    \E j \in 1..Len(alert_history) : alert_history[j].severity = "CRITICAL"

\* C22: if from some time on the dashboard stays running (one slider
\* configuration, the refresh timer firing), then from some time on every
\* reading is CRITICAL, and, if the first reading of that run was not
\* CRITICAL, an alert of severity CRITICAL is appended to the log.
C22_EventuallyCritical ==
    <>[]running
    => /\ <>[]CriticalNow
       /\ <>[]FirstNotCritical => <>[]CriticalAlertLogged

\* C22 witness: a running session that began below CRITICAL, whose latest
\* reading is CRITICAL and whose log holds the CRITICAL alert.
C22_Witness ==
    /\ running
    /\ FirstNotCritical
    /\ CriticalNow
    /\ CriticalAlertLogged
    /\ drift_rate = 10

==========================================================================
